---- MODULE Spec2Model ----
(***************************************************************************)
(* A state-machine model of dn3's training wrapper                         *)
(* (src/dn3/trainable/trainable.py) and of its basic transforms            *)
(* (src/dn3/transforms/basic.py).                                          *)
(*                                                                         *)
(* Python floats are modelled as exact rationals <<numerator, denominator>> *)
(* in lowest terms with a positive denominator.  Calls into torch, tqdm    *)
(* and pandas are modelled by their documented effect.                     *)
(***************************************************************************)
EXTENDS Integers, Sequences, FiniteSets, TLC

\* ------------------------------------------------------------------ bounds
MaxEpochs == 2
MaxBatches == 2
MaxValBatches == 3
MaxTrainSteps == 1

\* Python's None.
None == "None"

\* ------------------------------------------------------- exact arithmetic
Abs(a) == IF a < 0 THEN -a ELSE a

RECURSIVE GCD(_, _)
GCD(a, b) == IF b = 0 THEN a ELSE GCD(b, a % b)

\* The rational n/d (d # 0) in lowest terms with a positive denominator.
Rat(n, d) ==
    LET g == GCD(Abs(n), Abs(d))
        s == IF d < 0 THEN -1 ELSE 1
    IN  <<(s * n) \div g, (s * d) \div g>>

RatAdd(p, q) == Rat(p[1] * q[2] + q[1] * p[2], p[2] * q[2])
RatSub(p, q) == Rat(p[1] * q[2] - q[1] * p[2], p[2] * q[2])
RatMul(p, q) == Rat(p[1] * q[1], p[2] * q[2])
\* p / q for q # 0.
RatDiv(p, q) == Rat(p[1] * q[2], p[2] * q[1])
RatOfInt(k) == <<k, 1>>

\* ----------------------------------------------------------------- tqdm
\* tqdm.trange(lo, hi): the values lo, lo+1, ..., hi-1 in order.
trange(lo, hi) == [i \in 1..(IF hi > lo THEN hi - lo ELSE 0) |-> lo + i - 1]

\* =========================================================================
\* BaseTrainable / StandardClassifier: fit, evaluate, train_step
\* =========================================================================
VARIABLES
    pc,               \* position of the running call: "idle", "epoch", "batch",
                      \* "evaluate", "done", "error"
    entry,            \* the method the caller invoked: None, "fit", "evaluate"
    epochs,           \* fit's epochs argument
    training_dataset, \* the training DataLoader, as the sequence of its
                      \* batches: [metrics, loss], what calculate_metrics and
                      \* loss.item() yield on the batch
    validation_dataset, \* [given, batches]: given is FALSE for None; batches
                      \* is the sequence of the metrics each of its batches
                      \* yields from calculate_metrics
    step_callback,    \* TRUE iff a callable step_callback was passed
    epoch_callback,   \* TRUE iff a callable epoch_callback was passed
    epoch_bar,        \* the epochs fit still has to run
    epoch,            \* fit's loop variable
    pbar,             \* the iterations the running loop still has to run
    iteration,        \* fit's inner loop variable
    eval_iteration,   \* evaluate's loop variable
    batches_fetched,  \* the indices of the training batches next() has handed
                      \* out in the running epoch, in order
    data_iterator,    \* the number of batches next() has handed out
    train_log,        \* fit's train_log, a sequence of rows
    validation_log,   \* fit's validation_log, a sequence of rows
    metrics,          \* evaluate's local metrics dict
    calls,            \* the framework calls of the last training iteration
    optimizer_steps,  \* number of optimizer.step() calls so far
    scheduler,        \* self.scheduler: [given, gamma], given FALSE for None
    lr,               \* self.optimizer.param_groups[0]['lr']
    scheduler_steps,  \* number of scheduler.step() calls so far
    classifier_training, \* classifier.training (torch.nn.Module.train(mode))
    step_callback_calls, \* number of step_callback calls so far
    epoch_callback_calls, \* number of epoch_callback calls so far
    eval_dataset,     \* the dataset evaluate was called with
    batches_read      \* the batches evaluate has read, as their metrics

trainVars == <<pc, entry, epochs, training_dataset, validation_dataset,
               step_callback, epoch_callback, epoch_bar, epoch, pbar,
               iteration, eval_iteration, batches_fetched, data_iterator,
               train_log, validation_log, metrics, calls, optimizer_steps,
               scheduler, lr, scheduler_steps, classifier_training, step_callback_calls,
               epoch_callback_calls, eval_dataset, batches_read>>

\* The metric names a calculate_metrics hook may report and the values of a
\* batch's metric.
MetricNames == {"Accuracy", "loss"}
MetricValues == {0, 1}

\* The dicts a calculate_metrics hook may return for one batch: the base
\* class returns an empty OrderedDict, subclasses any dict of numbers.
BatchMetrics ==
    UNION {[names -> {RatOfInt(v) : v \in MetricValues}] : names \in SUBSET MetricNames}

RECURSIVE SeqsUpTo(_, _)
SeqsUpTo(S, n) ==
    IF n = 0 THEN {<<>>}
    ELSE LET shorter == SeqsUpTo(S, n - 1)
         IN  shorter \cup {Append(s, x) : s \in {t \in shorter : Len(t) = n - 1}, x \in S}

\* A DataLoader, as the metrics its batches yield, of at most n batches.
Datasets(n) == SeqsUpTo(BatchMetrics, n)

\* The dict {m: v for m in names}.
HookMetrics(names, v) == [m \in names |-> RatOfInt(v)]

\* The batches of a training DataLoader: what the calculate_metrics hook
\* returns on the batch (the base class's empty dict, or a subclass's dict
\* without or with a 'loss' entry) and the value of loss.item().
TrainBatches ==
    {[metrics |-> HookMetrics({}, 0), loss |-> RatOfInt(0)],
     [metrics |-> HookMetrics({}, 0), loss |-> RatOfInt(1)],
     [metrics |-> HookMetrics({"Accuracy"}, 1), loss |-> RatOfInt(1)],
     [metrics |-> HookMetrics({"loss"}, 0), loss |-> RatOfInt(1)]}

\* A training DataLoader of at most n batches.
TrainingDatasets(n) == SeqsUpTo(TrainBatches, n)

\* The orders in which a dict with the given names can hold them (its
\* insertion order): the sequences that list every name once.
MetricOrders(names) ==
    {o \in [1..Cardinality(names) -> names] : \A m \in names : \E i \in DOMAIN o : o[i] = m}
OrderOf(order, m) == CHOOSE i \in DOMAIN order : order[i] = m

\* The lr of torch.optim.Adam(self.parameters()), the optimizer __init__
\* creates.
AdamLr == Rat(1, 1000)

\* self.scheduler: None, or a scheduler whose step() multiplies the
\* optimizer's lr by gamma (torch.optim.lr_scheduler.ExponentialLR).
NoScheduler == [given |-> FALSE, gamma |-> RatOfInt(1)]
Schedulers == {NoScheduler} \cup {[given |-> TRUE, gamma |-> Rat(1, 2)]}

\* fit's validation_dataset argument: None (the default) or a DataLoader.
NoDataset == [given |-> FALSE, batches |-> <<>>]
GivenDataset(d) == [given |-> TRUE, batches |-> d]

\* The values of fit's validation_dataset: None, or a DataLoader of at most
\* one batch (evaluate on longer ones is reached by calling it directly).
FitValidationDatasets == {NoDataset} \cup {GivenDataset(d) : d \in Datasets(1)}

\* ---- BaseTrainable.backward
backward == <<"optimizer.zero_grad", "loss.backward">>

\* ---- The calls of one iteration of fit's batch loop, in order.
FitIterationCalls ==
    <<"get_batch", "forward", "calculate_loss">> \o backward \o <<"calculate_metrics">>

\* ---- The calls of StandardClassifier.train_step, in order.
TrainStepCalls ==
    <<"classifier.train", "forward", "calculate_loss">> \o backward
        \o <<"optimizer.step">>
        \o (IF scheduler.given THEN <<"scheduler.step">> ELSE <<>>)
        \o <<"calculate_metrics">>

update_metrics_Unweighted(old, new_metrics, iterations) ==
    IF DOMAIN old = {}
    THEN new_metrics
    ELSE [m \in DOMAIN old |->
            IF m \in DOMAIN new_metrics
            THEN RatDiv(RatAdd(old[m], new_metrics[m]), RatOfInt(iterations))
            ELSE old[m]]

\* ---- evaluate's inner update_metrics(new_metrics, iterations): the value
\* of the metrics dict afterwards.
update_metrics(old, new_metrics, iterations) ==
    IF DOMAIN old = {}
    THEN new_metrics
    ELSE [m \in DOMAIN old |->
            IF m \in DOMAIN new_metrics
            THEN RatDiv(RatAdd(RatMul(old[m], RatOfInt(iterations - 1)), new_metrics[m]),
                        RatOfInt(iterations))
            ELSE old[m]]

\* update_metrics raises KeyError: metrics[m] is read for a name it lacks.
update_metrics_KeyError(old, new_metrics) ==
    /\ DOMAIN old # {}
    /\ \E m \in DOMAIN new_metrics : m \notin DOMAIN old

\* The metrics dict when update_metrics raises KeyError: the names that come
\* before the first missing one in new_metrics, which holds its names in the
\* given order, have been updated already.
update_metrics_raised(old, new_metrics, iterations, order) ==
    LET missing == {m \in DOMAIN new_metrics : m \notin DOMAIN old}
        done == {m \in DOMAIN new_metrics :
                    \A x \in missing : OrderOf(order, m) < OrderOf(order, x)}
    IN  [m \in DOMAIN old |->
            IF m \in done
            THEN RatDiv(RatAdd(RatMul(old[m], RatOfInt(iterations - 1)), new_metrics[m]),
                        RatOfInt(iterations))
            ELSE old[m]]

IterationBarFromZero(n) == trange(0, n)

\* ---- fit's pbar: tqdm.trange(1, len(training_dataset)+1)
IterationBar(n) == trange(1, n + 1)

\* ---- fit's epoch_bar: tqdm.trange(1, epochs+1)
EpochBar(n) == trange(1, n + 1)

\* ---- evaluate's pbar: tqdm.trange(len(dataset))
EvaluateBar(n) == trange(0, n)

TrainInit ==
    /\ pc = "idle"
    /\ entry = None
    /\ epochs = 0
    /\ training_dataset = <<>>
    /\ validation_dataset = NoDataset
    /\ step_callback = FALSE
    /\ epoch_callback = FALSE
    /\ epoch_bar = <<>>
    /\ epoch = 0
    /\ pbar = <<>>
    /\ iteration = 0
    /\ eval_iteration = 0
    /\ batches_fetched = <<>>
    /\ data_iterator = 0
    /\ train_log = <<>>
    /\ validation_log = <<>>
    /\ metrics = <<>>
    /\ calls = <<>>
    /\ optimizer_steps = 0
    /\ scheduler \in Schedulers
    /\ lr = AdamLr
    /\ scheduler_steps = 0
    /\ classifier_training \in BOOLEAN
    /\ step_callback_calls = 0
    /\ epoch_callback_calls = 0
    /\ eval_dataset = <<>>
    /\ batches_read = <<>>

\* ---- StandardClassifier.train_step(*inputs), one whole call.
TrainStep ==
    /\ pc = "idle"
    /\ optimizer_steps < MaxTrainSteps
    /\ classifier_training' = TRUE
    /\ calls' = TrainStepCalls
    /\ optimizer_steps' = optimizer_steps + 1
    /\ scheduler_steps' = IF scheduler.given THEN scheduler_steps + 1 ELSE scheduler_steps
    /\ lr' = IF scheduler.given THEN RatMul(lr, scheduler.gamma) ELSE lr
    /\ UNCHANGED <<pc, entry, epochs, training_dataset, validation_dataset,
                   step_callback, epoch_callback, epoch_bar, epoch, pbar,
                   iteration, eval_iteration, batches_fetched, data_iterator,
                   train_log, validation_log, metrics, scheduler,
                   step_callback_calls, epoch_callback_calls, eval_dataset,
                   batches_read>>

\* ---- fit(training_dataset, epochs, validation_dataset, step_callback,
\* epoch_callback) is called: the logs are created and the epoch loop set up.
Fit ==
    /\ pc = "idle"
    /\ \E e \in 0..MaxEpochs, n \in TrainingDatasets(MaxBatches),
          v \in FitValidationDatasets,
          scb \in BOOLEAN, ecb \in BOOLEAN :
            /\ epochs' = e
            /\ training_dataset' = n
            /\ validation_dataset' = v
            /\ step_callback' = scb
            /\ epoch_callback' = ecb
            /\ epoch_bar' = EpochBar(e)
    /\ entry' = "fit"
    /\ train_log' = <<>>
    /\ validation_log' = <<>>
    /\ pc' = "epoch"
    /\ UNCHANGED <<epoch, pbar, iteration, eval_iteration, batches_fetched,
                   data_iterator, metrics, calls, optimizer_steps, scheduler, lr, scheduler_steps,
                   classifier_training, step_callback_calls,
                   epoch_callback_calls, eval_dataset, batches_read>>

\* ---- fit, top of `for epoch in epoch_bar`: the iteration bar and a fresh
\* iterator over the training dataset.
FitEpochBegin ==
    /\ pc = "epoch"
    /\ epoch_bar # <<>>
    /\ epoch' = Head(epoch_bar)
    /\ epoch_bar' = Tail(epoch_bar)
    /\ pbar' = IterationBar(Len(training_dataset))
    /\ data_iterator' = 0
    /\ batches_fetched' = <<>>
    /\ pc' = "batch"
    /\ UNCHANGED <<entry, epochs, training_dataset, validation_dataset,
                   step_callback, epoch_callback, iteration, eval_iteration,
                   train_log,
                   validation_log, metrics, calls, optimizer_steps, scheduler, lr,
                   scheduler_steps, classifier_training, step_callback_calls,
                   epoch_callback_calls, eval_dataset, batches_read>>

\* The row fit appends to train_log for one iteration: the dict the
\* calculate_metrics hook returned, with 'loss' set to loss.item() unless the
\* hook set it, and 'epoch', 'iteration' and 'lr' set after that.
TrainRow(ep, it, batch) ==
    [k \in DOMAIN batch.metrics \cup {"loss", "epoch", "iteration", "lr"} |->
        IF k = "epoch" THEN ep
        ELSE IF k = "iteration" THEN it
        ELSE IF k = "lr" THEN lr
        ELSE IF k \in DOMAIN batch.metrics THEN batch.metrics[k]
        ELSE batch.loss]

\* ---- fit, one pass of `for iteration in pbar`.
FitIteration ==
    /\ pc = "batch"
    /\ pbar # <<>>
    /\ iteration' = Head(pbar)
    /\ pbar' = Tail(pbar)
    /\ IF data_iterator < Len(training_dataset)
       THEN /\ data_iterator' = data_iterator + 1
            /\ batches_fetched' = Append(batches_fetched, data_iterator + 1)
            /\ calls' = FitIterationCalls
            /\ train_log' = Append(train_log,
                                   TrainRow(epoch, Head(pbar),
                                            training_dataset[data_iterator + 1]))
            /\ step_callback_calls' =
                  IF step_callback THEN step_callback_calls + 1
                  ELSE step_callback_calls
            /\ pc' = "batch"
       ELSE \* next(iterator) raises StopIteration
            /\ pc' = "error"
            /\ UNCHANGED <<data_iterator, batches_fetched, calls, train_log,
                           step_callback_calls>>
    /\ UNCHANGED <<entry, epochs, training_dataset, validation_dataset,
                   step_callback, epoch_callback, epoch_bar, epoch,
                   eval_iteration, validation_log, metrics, optimizer_steps, scheduler, lr,
                   scheduler_steps, classifier_training, epoch_callback_calls,
                   eval_dataset, batches_read>>

\* ---- evaluate(dataset) entered: StandardClassifier.evaluate puts the
\* classifier in evaluation mode, BaseTrainable.evaluate sets up its loop.
EvaluateEnter(dataset) ==
    /\ classifier_training' = FALSE
    /\ eval_dataset' = dataset
    /\ pbar' = EvaluateBar(Len(dataset))
    /\ data_iterator' = 0
    /\ metrics' = <<>>
    /\ batches_read' = <<>>
    /\ pc' = "evaluate"

\* ---- fit, after the batch loop of an epoch: validation, if asked for.
FitEpochEnd ==
    /\ pc = "batch"
    /\ pbar = <<>>
    /\ IF validation_dataset.given
       THEN EvaluateEnter(validation_dataset.batches)
       ELSE /\ pc' = "epoch"
            /\ UNCHANGED <<classifier_training, eval_dataset, pbar,
                           data_iterator, metrics, batches_read>>
    /\ UNCHANGED <<entry, epochs, training_dataset, validation_dataset,
                   step_callback, epoch_callback, epoch_bar, epoch, iteration,
                   eval_iteration, batches_fetched, train_log, validation_log,
                   calls, optimizer_steps, scheduler, lr, scheduler_steps,
                   step_callback_calls, epoch_callback_calls>>

\* ---- evaluate(dataset) called by the user.
Evaluate ==
    /\ pc = "idle"
    /\ \E d \in Datasets(MaxValBatches) : EvaluateEnter(d)
    /\ entry' = "evaluate"
    /\ UNCHANGED <<epochs, training_dataset, validation_dataset, step_callback,
                   epoch_callback, epoch_bar, epoch, iteration, eval_iteration,
                   batches_fetched, train_log, validation_log, calls,
                   optimizer_steps, scheduler, lr, scheduler_steps,
                   step_callback_calls, epoch_callback_calls>>

\* ---- evaluate, one pass of `for iteration in pbar`.
EvaluateIteration ==
    /\ pc = "evaluate"
    /\ pbar # <<>>
    /\ eval_iteration' = Head(pbar)
    /\ pbar' = Tail(pbar)
    /\ IF data_iterator < Len(eval_dataset)
       THEN LET new_metrics == eval_dataset[data_iterator + 1]
            IN  /\ data_iterator' = data_iterator + 1
                /\ batches_read' = Append(batches_read, new_metrics)
                /\ IF update_metrics_KeyError(metrics, new_metrics)
                   THEN \* the order of the hook's dict is read here
                        /\ pc' = "error"
                        /\ \E order \in MetricOrders(DOMAIN new_metrics) :
                              metrics' = update_metrics_raised(metrics, new_metrics,
                                                               Head(pbar) + 1, order)
                   ELSE /\ metrics' = update_metrics(metrics, new_metrics, Head(pbar) + 1)
                        /\ pc' = "evaluate"
       ELSE /\ pc' = "error"
            /\ UNCHANGED <<data_iterator, batches_read, metrics>>
    /\ UNCHANGED <<entry, epochs, training_dataset, validation_dataset,
                   step_callback, epoch_callback, epoch_bar, epoch, iteration,
                   batches_fetched, train_log, validation_log, calls,
                   optimizer_steps, scheduler, lr, scheduler_steps,
                   classifier_training, step_callback_calls,
                   epoch_callback_calls, eval_dataset>>

\* The row fit appends to validation_log: evaluate's dict with 'epoch' set.
ValidationRow(val_metrics, ep) ==
    [k \in DOMAIN val_metrics \cup {"epoch"} |->
        IF k = "epoch" THEN ep ELSE val_metrics[k]]

\* ---- evaluate returns its metrics; inside fit the epoch's validation row
\* is logged and the epoch callback run.
EvaluateReturn ==
    /\ pc = "evaluate"
    /\ pbar = <<>>
    /\ IF entry = "fit"
       THEN /\ validation_log' = Append(validation_log,
                                        ValidationRow(metrics, epoch))
            /\ epoch_callback_calls' =
                  IF epoch_callback THEN epoch_callback_calls + 1
                  ELSE epoch_callback_calls
            /\ pc' = "epoch"
       ELSE /\ pc' = "done"
            /\ UNCHANGED <<validation_log, epoch_callback_calls>>
    /\ UNCHANGED <<entry, epochs, training_dataset, validation_dataset,
                   step_callback, epoch_callback, epoch_bar, epoch, pbar,
                   iteration, eval_iteration, batches_fetched, data_iterator,
                   train_log, metrics, calls, optimizer_steps, scheduler, lr, scheduler_steps,
                   classifier_training, step_callback_calls, eval_dataset,
                   batches_read>>

\* ---- fit returns DataFrame(train_log), DataFrame(validation_log).
FitReturn ==
    /\ pc = "epoch"
    /\ epoch_bar = <<>>
    /\ pc' = "done"
    /\ UNCHANGED <<entry, epochs, training_dataset, validation_dataset,
                   step_callback, epoch_callback, epoch_bar, epoch, pbar,
                   iteration, eval_iteration, batches_fetched, data_iterator,
                   train_log, validation_log, metrics, calls, optimizer_steps,
                   scheduler, lr, scheduler_steps, classifier_training,
                   step_callback_calls, epoch_callback_calls, eval_dataset,
                   batches_read>>

\* =========================================================================
\* BaseTrainable.__init__ and StandardClassifier.__init__
\* =========================================================================
VARIABLES
    constructed,      \* "new", "built" or "AssertionError"
    cuda,             \* the cuda argument, [type, value]
    device,           \* self.device
    self_dict,        \* self.__dict__: attribute name -> [kind, device]
    before_members,   \* __init__'s _before_members
    new_members,      \* __init__'s new_members
    added             \* the attributes build_network added to the object

ctorVars == <<constructed, cuda, device, self_dict, before_members,
              new_members, added>>

AttrNames == {"cuda", "device", "scheduler", "classifier", "extractor",
              "optimizer", "loss"}
\* The attributes a build_network may add.
BuildNames == {"classifier", "extractor"}
Devices == {"cpu", "cuda", "cuda:1"}

\* The values of the cuda argument: a bool, a device string, or something
\* that is neither.
CudaArgs ==
    {[type |-> "bool", value |-> "True"], [type |-> "bool", value |-> "False"],
     [type |-> "str", value |-> "cpu"], [type |-> "str", value |-> "cuda"],
     [type |-> "str", value |-> "cuda:1"], [type |-> "int", value |-> "0"]}

Absent == [kind |-> "absent", device |-> "-"]
Object == [kind |-> "object", device |-> "-"]
Module(d) == [kind |-> "module", device |-> d]
AttrValues == {Absent, Object} \cup {Module(d) : d \in Devices}

\* self.__dict__.keys()
Keys(d) == {a \in AttrNames : d[a].kind # "absent"}

EmptyDict == [a \in AttrNames |-> Absent]

\* ---- lines 24-27: the device string torch.device is built from.
DeviceOf(c) ==
    IF c.type = "bool"
    THEN (IF c.value = "True" THEN "cuda" ELSE "cpu")
    ELSE c.value

\* ---- build_network(**kwargs): a subclass sets attributes on self.
build_network(d, b) ==
    [a \in AttrNames |-> IF a \in BuildNames /\ b[a].kind # "absent" THEN b[a] ELSE d[a]]

\* ---- line 32: new_members = _before_members.difference(self.__dict__.keys())
NewMembers(before, after) == before \ after

\* ---- lines 33-35: every new member that is a torch.nn.Module is moved.
MoveMembers(d, members, dev) ==
    [a \in AttrNames |->
        IF a \in members /\ d[a].kind = "module" THEN Module(dev) ELSE d[a]]

CtorInit ==
    /\ constructed = "new"
    /\ cuda = [type |-> "bool", value |-> "False"]
    /\ device = "-"
    /\ self_dict = EmptyDict
    /\ before_members = {}
    /\ new_members = {}
    /\ added = {}

\* ---- BaseTrainable.__init__(optimizer, scheduler, cuda, **kwargs) with the
\* build_network of a subclass that sets the attributes b.  after: the
\* attributes the subclass's __init__ sets afterwards.
BaseInit(c, b, after) ==
    /\ constructed = "new"
    /\ cuda' = c
    /\ IF c.type \notin {"bool", "str"}
       THEN /\ constructed' = "AssertionError"
            /\ self_dict' = [EmptyDict EXCEPT !["cuda"] = Object]
            /\ UNCHANGED <<device, before_members, new_members, added>>
       ELSE LET dev == DeviceOf(c)
                d0 == [EmptyDict EXCEPT !["cuda"] = Object, !["device"] = Object,
                                        !["scheduler"] = Object]
                d1 == build_network(d0, b)
                nm == NewMembers(Keys(d0), Keys(d1))
                d2 == MoveMembers(d1, nm, dev)
                d3 == [d2 EXCEPT !["optimizer"] = Object]
            IN  /\ constructed' = "built"
                /\ device' = dev
                /\ before_members' = Keys(d0)
                /\ new_members' = nm
                /\ added' = Keys(d1) \ Keys(d0)
                /\ self_dict' = [a \in AttrNames |->
                                    IF a \in DOMAIN after THEN after[a] ELSE d3[a]]

\* ---- a subclass of BaseTrainable is constructed.
Construct ==
    \E c \in CudaArgs, b \in [BuildNames -> AttrValues] : BaseInit(c, b, <<>>)

\* ---- StandardClassifier(classifier, loss_fn, cuda): build_network sets
\* self.classifier, then the loss module is moved to self.device.
ConstructStandardClassifier ==
    \E c \in CudaArgs, d \in Devices :
        BaseInit(c,
                 [a \in BuildNames |-> IF a = "classifier" THEN Module(d) ELSE Absent],
                 [a \in {"loss"} |-> Module(DeviceOf(c))])

\* =========================================================================
\* TemporalPadding (src/dn3/transforms/basic.py)
\* =========================================================================
MaxPad == 2
MaxDim == 4

VARIABLES
    start_padding,    \* TemporalPadding.start_padding
    end_padding,      \* TemporalPadding.end_padding
    pad_called,       \* TRUE once __call__ has been applied to a trial
    x_shape,          \* x.shape of the trial handed to __call__
    padded            \* what __call__ produced: [status, shape, row]

padVars == <<start_padding, end_padding, pad_called, x_shape, padded>>

\* Numbers of dimensions of a trial tensor (samples; channels x samples;
\* channels x frequencies x samples).
Ranks == {1, 2, 3}

\* The shapes of the trials: every dimension between 1 and MaxDim.
Shapes == UNION {[1..r -> 1..MaxDim] : r \in Ranks}

Last(s) == s[Len(s)]

\* torch.nn.functional.pad(x, pad, mode='constant', value): pad holds
\* (left, right) pairs starting from the last dimension.  Its result is given
\* as the new shape and the layout of a row along the last dimension: the
\* index of the sample of x at each place, 0 where the constant is filled in.
torch_pad(shape, pad) ==
    IF Len(pad) % 2 # 0
    THEN [status |-> "raises: the padding length is odd",
          shape |-> <<>>, row |-> <<>>]
    ELSE IF Len(pad) \div 2 > Len(shape)
    THEN [status |-> "raises: more padding pairs than dimensions",
          shape |-> <<>>, row |-> <<>>]
    ELSE [status |-> "ok",
          shape |-> [i \in 1..Len(shape) |->
                        LET j == Len(shape) - i + 1
                        IN  IF j <= Len(pad) \div 2
                            THEN shape[i] + pad[2 * j - 1] + pad[2 * j]
                            ELSE shape[i]],
          row |-> [k \in 1..(Last(shape) + pad[1] + pad[2]) |->
                        IF k > pad[1] /\ k <= pad[1] + Last(shape)
                        THEN k - pad[1] ELSE 0]]

\* ---- line 112: pad = [start_padding, end_padding] + [0 for _ in range(2, x.shape[-1])]
PadList(shape) ==
    <<start_padding, end_padding>>
        \o [i \in 1..(IF Last(shape) > 2 THEN Last(shape) - 2 ELSE 0) |-> 0]

\* ---- TemporalPadding.__call__(x)
TemporalPadding_call(shape) == torch_pad(shape, PadList(shape))

\* ---- TemporalPadding.new_sequence_length(old_sequence_length)
new_sequence_length(old_sequence_length) ==
    old_sequence_length + start_padding + end_padding

NotPadded == [status |-> "none", shape |-> <<>>, row |-> <<>>]

\* ---- TemporalPadding.__init__(start_padding, end_padding)
PadInit ==
    /\ start_padding \in 0..MaxPad
    /\ end_padding \in 0..MaxPad
    /\ pad_called = FALSE
    /\ x_shape = <<>>
    /\ padded = NotPadded

\* ---- the transform is applied to a trial.
TemporalPaddingCall ==
    /\ ~pad_called
    /\ \E shape \in Shapes :
          /\ x_shape' = shape
          /\ padded' = TemporalPadding_call(shape)
    /\ pad_called' = TRUE
    /\ UNCHANGED <<start_padding, end_padding>>

\* =========================================================================
\* ZScore (src/dn3/transforms/basic.py) and the tests' reference
\* =========================================================================
MaxSamples == 4

VARIABLES
    only_trial_data,  \* BaseTransform.only_trial_data of the ZScore object
    z_called,         \* TRUE once the transform has been applied
    trial,            \* the trial's elements, flattened
    z_before,         \* only_trial_data as it was before the call
    z_out             \* what the call returned, element by element

zVars == <<only_trial_data, z_called, trial, z_before, z_out>>

\* The values of a trial's elements.
SampleValues == {0, 1, 2}

\* The trials: between 1 and MaxSamples elements.
Trials == UNION {[1..n -> {RatOfInt(v) : v \in SampleValues}] : n \in 1..MaxSamples}

RECURSIVE TensorSum(_, _)
TensorSum(x, k) == IF k = 0 THEN RatOfInt(0) ELSE RatAdd(TensorSum(x, k - 1), x[k])

\* x.mean(): the mean over all elements.
TensorMean(x) == RatDiv(TensorSum(x, Len(x)), RatOfInt(Len(x)))

\* x - c for a scalar c.
TensorSubScalar(x, c) == [i \in 1..Len(x) |-> RatSub(x[i], c)]

TensorSquare(x) == [i \in 1..Len(x) |-> RatMul(x[i], x[i])]

\* The sum of the squared deviations of x from its mean.
SquaredDeviations(x) ==
    LET d == TensorSquare(TensorSubScalar(x, TensorMean(x)))
    IN  TensorSum(d, Len(d))

\* x.std(): torch's default, the unbiased (n - 1) estimate; nan for a single
\* element.  A standard deviation is kept as its square: [nan, sq] stands
\* for sqrt(sq).
TensorStd(x) ==
    IF Len(x) <= 1
    THEN [nan |-> TRUE, sq |-> RatOfInt(0)]
    ELSE [nan |-> FALSE, sq |-> RatDiv(SquaredDeviations(x), RatOfInt(Len(x) - 1))]

\* The population (n) estimate, numpy's default.
TensorStdBiased(x) ==
    [nan |-> FALSE, sq |-> RatDiv(SquaredDeviations(x), RatOfInt(Len(x)))]

NaN == [kind |-> "nan", num |-> RatOfInt(0), root |-> RatOfInt(1)]
Inf == [kind |-> "inf", num |-> RatOfInt(0), root |-> RatOfInt(1)]
NegInf == [kind |-> "-inf", num |-> RatOfInt(0), root |-> RatOfInt(1)]

\* a / sd in IEEE arithmetic: [kind |-> "num", num, root] stands for
\* num / sqrt(root).
DivByStd(a, sd) ==
    IF sd.nan THEN NaN
    ELSE IF sd.sq[1] = 0
    THEN (IF a[1] = 0 THEN NaN ELSE IF a[1] > 0 THEN Inf ELSE NegInf)
    ELSE [kind |-> "num", num |-> a, root |-> sd.sq]

\* x / sd for a scalar sd.
TensorDivScalar(x, sd) == [i \in 1..Len(x) |-> DivByStd(x[i], sd)]

ZScoreBiased(x) == TensorDivScalar(TensorSubScalar(x, TensorMean(x)), TensorStdBiased(x))

\* ---- ZScore.__call__(x): (x - x.mean()) / x.std()
ZScore(x) == TensorDivScalar(TensorSubScalar(x, TensorMean(x)), TensorStd(x))

\* ---- tests' simple_zscoring(data): (data - data.mean()) / data.std()
simple_zscoring(data) ==
    TensorDivScalar(TensorSubScalar(data, TensorMean(data)), TensorStd(data))

\* ---- ZScore(): BaseTransform.__init__(only_trial_data=True)
ZScoreInit ==
    /\ only_trial_data \in BOOLEAN
    /\ z_called = FALSE
    /\ trial = <<>>
    /\ z_before = TRUE
    /\ z_out = <<>>

\* ---- the transform is applied to a trial.
ZScoreCall ==
    /\ ~z_called
    /\ \E x \in Trials :
          /\ trial' = x
          /\ z_out' = ZScore(x)
    /\ z_before' = only_trial_data
    /\ z_called' = TRUE
    /\ UNCHANGED only_trial_data

\* =========================================================================
\* Datasets and their transforms (dn3.data.dataset, exercised by
\* src/tests/testTransforms.py)
\* =========================================================================
MaxTransforms == 2

VARIABLES
    transforms,       \* dataset._transforms of the dataset under test
    fold,             \* the (training, validating, testing) last yielded by
                      \* loso() or lmso(), each as its _transforms, with the
                      \* transforms registered on the dataset at that time
    split_test        \* the test dataset of the last testing.split(...), as
                      \* its _transforms

dataVars == <<transforms, fold, split_test>>

\* The transform objects of the tests.
TransformObjects == {"ZScore", "TemporalPadding"}

Elements(s) == {s[i] : i \in 1..Len(s)}

NoFold == [via |-> "none", registered |-> <<>>, training |-> <<>>,
           validating |-> <<>>, testing |-> <<>>]
NoSplit == [done |-> FALSE, test |-> <<>>]

\* The _transforms of a dataset derived from one whose _transforms are
\* parent.
DerivedTransformsDropped(parent) == <<>>

DerivedTransforms(parent) == parent

\* ---- create_dummy_dataset()
DataInit ==
    /\ transforms = <<>>
    /\ fold = NoFold
    /\ split_test = NoSplit

\* ---- dataset.add_transform(transform)
AddTransform ==
    /\ Len(transforms) < MaxTransforms
    /\ \E t \in TransformObjects : transforms' = Append(transforms, t)
    /\ UNCHANGED <<fold, split_test>>

\* ---- dataset.clear_transforms()
ClearTransforms ==
    /\ transforms' = <<>>
    /\ UNCHANGED <<fold, split_test>>

Yield(via) ==
    /\ fold' = [via |-> via, registered |-> transforms,
                training |-> DerivedTransforms(transforms),
                validating |-> DerivedTransforms(transforms),
                testing |-> DerivedTransforms(transforms)]
    /\ split_test' = NoSplit
    /\ UNCHANGED transforms

\* ---- dataset.loso() yields a (training, validating, testing) triple.
Loso == Yield("loso")

\* ---- dataset.lmso() yields a (training, validating, testing) triple.
Lmso == Yield("lmso")

\* ---- testing.split(testing_sess_ids=[...]) on a yielded testing dataset.
Split ==
    /\ fold.via # "none"
    /\ split_test' = [done |-> TRUE, test |-> DerivedTransforms(fold.testing)]
    /\ UNCHANGED <<transforms, fold>>

\* =========================================================================
\* Specifications
\* =========================================================================
vars == <<trainVars, ctorVars, padVars, zVars, dataVars>>

TrainIdle == TrainInit /\ scheduler = NoScheduler /\ classifier_training = TRUE
PadIdle == PadInit /\ start_padding = 0 /\ end_padding = 0
ZScoreIdle == ZScoreInit /\ only_trial_data = TRUE

\* ---- fit, evaluate and train_step on a constructed StandardClassifier.
Init == TrainInit /\ CtorInit /\ PadIdle /\ ZScoreIdle /\ DataInit

Next ==
    \/ TrainStep /\ UNCHANGED <<ctorVars, padVars, zVars, dataVars>>
    \/ Fit /\ UNCHANGED <<ctorVars, padVars, zVars, dataVars>>
    \/ FitEpochBegin /\ UNCHANGED <<ctorVars, padVars, zVars, dataVars>>
    \/ FitIteration /\ UNCHANGED <<ctorVars, padVars, zVars, dataVars>>
    \/ FitEpochEnd /\ UNCHANGED <<ctorVars, padVars, zVars, dataVars>>
    \/ Evaluate /\ UNCHANGED <<ctorVars, padVars, zVars, dataVars>>
    \/ EvaluateIteration /\ UNCHANGED <<ctorVars, padVars, zVars, dataVars>>
    \/ EvaluateReturn /\ UNCHANGED <<ctorVars, padVars, zVars, dataVars>>
    \/ FitReturn /\ UNCHANGED <<ctorVars, padVars, zVars, dataVars>>

Spec == Init /\ [][Next]_vars

\* ---- construction of a trainable.
InitCtor == TrainIdle /\ CtorInit /\ PadIdle /\ ZScoreIdle /\ DataInit

NextCtor ==
    \/ Construct /\ UNCHANGED <<trainVars, padVars, zVars, dataVars>>
    \/ ConstructStandardClassifier /\ UNCHANGED <<trainVars, padVars, zVars, dataVars>>

SpecCtor == InitCtor /\ [][NextCtor]_vars

\* ---- a TemporalPadding applied to a trial.
InitPad == TrainIdle /\ CtorInit /\ PadInit /\ ZScoreIdle /\ DataInit

NextPad == TemporalPaddingCall /\ UNCHANGED <<trainVars, ctorVars, zVars, dataVars>>

SpecPad == InitPad /\ [][NextPad]_vars

\* ---- a ZScore applied to a trial.
InitZScore == TrainIdle /\ CtorInit /\ PadIdle /\ ZScoreInit /\ DataInit

NextZScore == ZScoreCall /\ UNCHANGED <<trainVars, ctorVars, padVars, dataVars>>

SpecZScore == InitZScore /\ [][NextZScore]_vars

\* ---- transforms registered on a dataset that is then split.
InitDataset == TrainIdle /\ CtorInit /\ PadIdle /\ ZScoreIdle /\ DataInit

NextDataset ==
    \/ AddTransform /\ UNCHANGED <<trainVars, ctorVars, padVars, zVars>>
    \/ ClearTransforms /\ UNCHANGED <<trainVars, ctorVars, padVars, zVars>>
    \/ Loso /\ UNCHANGED <<trainVars, ctorVars, padVars, zVars>>
    \/ Lmso /\ UNCHANGED <<trainVars, ctorVars, padVars, zVars>>
    \/ Split /\ UNCHANGED <<trainVars, ctorVars, padVars, zVars>>

SpecDataset == InitDataset /\ [][NextDataset]_vars
\* =========================================================================
\* Properties of fit, evaluate and train_step
\* =========================================================================

\* The positions of call c in the sequence cs.
Positions(cs, c) == {i \in 1..Len(cs) : cs[i] = c}

\* C1: in fit, every training iteration calls forward, then calculate_loss,
\* then loss.backward, and then optimizer.step exactly once.
C1_OptimizerStepsOncePerIteration ==
    (entry = "fit" /\ train_log # <<>>) =>
        /\ Cardinality(Positions(calls, "optimizer.step")) = 1
        /\ \E f \in Positions(calls, "forward"),
              l \in Positions(calls, "calculate_loss"),
              b \in Positions(calls, "loss.backward"),
              o \in Positions(calls, "optimizer.step") :
                f < l /\ l < b /\ b < o

\* C2: fit hands out each of the N training batches exactly once per epoch,
\* in order, and returns a train log of epochs * N rows in which row k
\* (counted from 0) carries epoch 1 + (k div N) and iteration 1 + (k mod N).
C2_TrainLogRows ==
    entry = "fit" =>
        LET N == Len(training_dataset)
        IN  /\ \A k \in 1..Len(train_log) :
                  /\ train_log[k].epoch = 1 + ((k - 1) \div N)
                  /\ train_log[k].iteration = 1 + ((k - 1) % N)
            /\ (pc = "batch" /\ pbar = <<>>) =>
                  /\ batches_fetched = [i \in 1..N |-> i]
                  /\ Len(train_log) = epoch * N
            /\ pc = "done" => Len(train_log) = epochs * N

C2_Witness ==
    /\ entry = "fit"
    /\ pc = "done"
    /\ epochs = 2
    /\ Len(training_dataset) = 2
    /\ Len(train_log) = 4
    /\ train_log[4].epoch = 2
    /\ train_log[4].iteration = 2

\* C3: a callable epoch_callback has run exactly `epochs` times when fit
\* returns, with or without a validation dataset.
C3_EpochCallbackEveryEpoch ==
    (entry = "fit" /\ pc = "done" /\ epoch_callback) =>
        epoch_callback_calls = epochs

\* The sum of metric m over the first k batches of bs.
RECURSIVE SumMetric(_, _, _)
SumMetric(bs, m, k) ==
    IF k = 0 THEN RatOfInt(0) ELSE RatAdd(SumMetric(bs, m, k - 1), bs[k][m])

\* Every batch of dataset d reports the same non-empty set of metric names.
SameMetricNames(d) ==
    \E names \in (SUBSET MetricNames) \ {{}} :
        \A i \in 1..Len(d) : DOMAIN d[i] = names

\* evaluate has returned (to the user, or to fit at the end of an epoch).
EvaluateReturned ==
    \/ entry = "evaluate" /\ pc = "done"
    \/ entry = "fit" /\ pc = "epoch" /\ validation_log # <<>>

\* C4: on a dataset whose batches all report the same non-empty metric
\* names, evaluate raises nothing, after k batches its value for each metric
\* times k is the sum of the first k per-batch values, and it returns having
\* read exactly the len(dataset) batches, each once and in order.
C4_EvaluateRunningMean ==
    SameMetricNames(eval_dataset) =>
        /\ ~(pc = "error")
        /\ pc = "evaluate" => data_iterator = Len(batches_read)
        /\ \A i \in 1..Len(batches_read) : batches_read[i] = eval_dataset[i]
        /\ batches_read # <<>> =>
              /\ DOMAIN metrics = DOMAIN batches_read[1]
              /\ \A m \in DOMAIN metrics :
                    RatMul(metrics[m], RatOfInt(Len(batches_read)))
                        = SumMetric(batches_read, m, Len(batches_read))
        /\ EvaluateReturned => batches_read = eval_dataset

C4_Witness ==
    /\ entry = "evaluate"
    /\ pc = "done"
    /\ Len(eval_dataset) = 3
    /\ SameMetricNames(eval_dataset)
    /\ DOMAIN metrics = {"Accuracy", "loss"}
    /\ metrics["Accuracy"] = <<1, 3>>
    /\ metrics["loss"] = <<2, 3>>

\* =========================================================================
\* Properties of the constructor, the transforms and the datasets
\* =========================================================================

\* C5: a transform registered on a dataset when loso() or lmso() yields is in
\* _transforms of the training, validating and testing datasets yielded, and
\* of the test dataset a further split() of the testing dataset returns.
C5_TransformsSurviveSplitting ==
    \A t \in Elements(fold.registered) :
        /\ fold.via # "none" =>
              /\ t \in Elements(fold.training)
              /\ t \in Elements(fold.validating)
              /\ t \in Elements(fold.testing)
        /\ split_test.done => t \in Elements(split_test.test)

C5_Witness ==
    /\ fold.via = "loso"
    /\ "ZScore" \in Elements(fold.registered)
    /\ split_test.done
    /\ "ZScore" \in Elements(split_test.test)
    /\ transforms = <<>>

\* C6: TemporalPadding applied to a trial with T samples returns a tensor
\* with T + start_padding + end_padding samples, the trial's samples after
\* start_padding filled ones, every other dimension unchanged, and that
\* length is new_sequence_length(T), for every T.
C6_PaddedLength ==
    pad_called =>
        /\ padded.status = "ok"
        /\ Len(padded.shape) = Len(x_shape)
        /\ Last(padded.shape) = Last(x_shape) + start_padding + end_padding
        /\ Last(padded.shape) = new_sequence_length(Last(x_shape))
        /\ \A i \in 1..(Len(x_shape) - 1) : padded.shape[i] = x_shape[i]
        /\ \A k \in 1..Last(x_shape) : padded.row[start_padding + k] = k

Constant(x) == \A i \in 1..Len(x) : x[i] = x[1]

RECURSIVE SumNum(_, _)
SumNum(z, k) == IF k = 0 THEN RatOfInt(0) ELSE RatAdd(SumNum(z, k - 1), z[k].num)

RECURSIVE SumNumSquared(_, _)
SumNumSquared(z, k) ==
    IF k = 0 THEN RatOfInt(0)
    ELSE RatAdd(SumNumSquared(z, k - 1), RatMul(z[k].num, z[k].num))

\* C7: ZScore returns the reference z-scoring (x - mean(x)) / std(x) of the
\* trial, mean and std over all its elements (so the result of a trial that
\* is not constant has mean 0 and unit sample variance), and leaves the
\* transform object as it was.
C7_ZScoreIsReference ==
    z_called =>
        /\ z_out = simple_zscoring(trial)
        /\ only_trial_data = z_before
        /\ Len(z_out) = Len(trial)
        /\ ~Constant(trial) =>
              /\ \A i \in 1..Len(z_out) :
                    /\ z_out[i].kind = "num"
                    /\ z_out[i].root = z_out[1].root
              /\ SumNum(z_out, Len(z_out)) = RatOfInt(0)
              /\ SumNumSquared(z_out, Len(z_out))
                    = RatMul(RatOfInt(Len(z_out) - 1), z_out[1].root)

C7_Witness ==
    /\ z_called
    /\ trial = <<RatOfInt(0), RatOfInt(1), RatOfInt(2)>>
    /\ z_out[1] = [kind |-> "num", num |-> <<-1, 1>>, root |-> <<1, 1>>]
    /\ z_out[3] = [kind |-> "num", num |-> <<1, 1>>, root |-> <<1, 1>>]

\* C8: once __init__ has returned, the new members it computed are exactly
\* the attributes build_network added, and every one of them that is a
\* torch.nn.Module is on self.device.
C8_NewModulesOnDevice ==
    constructed = "built" =>
        /\ new_members = added
        /\ \A a \in added :
              self_dict[a].kind = "module" => self_dict[a].device = device
====
